---- MODULE Spec2Model ----
(***************************************************************************)
(* Spectral library matching: the LCMS engine                              *)
(* (scripts/spec_lib_matching_lcms.py) and the GCMS engine                 *)
(* (scripts/spec_lib_matching_gcms.py).                                    *)
(*                                                                         *)
(* Numbers.  Every float of the program (m/z, intensity, exponent,         *)
(* threshold, score) is a fixed-point integer: the real x is the integer   *)
(* x * SCALE.  Products and quotients are rounded to the nearest unit.     *)
(*                                                                         *)
(* The modules processing and similarity_measures, which the two scripts   *)
(* import with "from ... import *", are not part of the sources at hand:   *)
(* clean_spectrum, match_peaks_in_spectra, transform_int, normalize,       *)
(* S_cos, S_shannon, S_renyi and S_tsallis are written from their          *)
(* description in the specification (sections 4.1 to 4.7).                 *)
(***************************************************************************)
EXTENDS Integers, Sequences, FiniteSets, TLC

(***************************************************************************)
(* Fixed-point arithmetic                                                  *)
(***************************************************************************)
SCALE == 1000

\* log(2), in units of 1/SCALE
LN2 == 693

Abs(x) == IF x < 0 THEN -x ELSE x

\* round(a / b) for b > 0
RoundDiv(a, b) == (a + b \div 2) \div b

Mul(a, b) == RoundDiv(a * b, SCALE)

Div(a, b) == RoundDiv(a * SCALE, b)

RECURSIVE SumSeq(_)
SumSeq(s) == IF s = <<>> THEN 0 ELSE Head(s) + SumSeq(Tail(s))

RECURSIVE MaxSeq(_)
MaxSeq(s) ==
    IF Len(s) = 1 THEN s[1]
    ELSE LET m == MaxSeq(Tail(s)) IN IF s[1] >= m THEN s[1] ELSE m

\* the Taylor series of exp, summed from the term of index k on
RECURSIVE ExpSeries(_, _, _)
ExpSeries(x, term, k) ==
    IF term = 0 THEN 0
    ELSE term + ExpSeries(x, RoundDiv(term * x, SCALE * k), k + 1)

\* exp(x): the series for 0 <= x <= 1/2, exp(x/2)^2 above, 1/exp(-x) below 0
\* (exp(x) < 1/SCALE, hence 0, for x < -7)
RECURSIVE Exp(_)
Exp(x) ==
    IF x < -7 * SCALE THEN 0
    ELSE IF x < 0 THEN Div(SCALE, Exp(-x))
    ELSE IF 2 * x > SCALE
         THEN LET h == Exp(x \div 2)
                  g == Exp(x - (x \div 2))
              IN  Mul(h, g)
         ELSE ExpSeries(x, SCALE, 1)

\* 2 * atanh(z) = 2 * (z + z^3/3 + z^5/5 + ...), summed from the term z^k on
RECURSIVE AtanhSeries(_, _, _)
AtanhSeries(z2, power, k) ==
    IF power = 0 THEN 0
    ELSE RoundDiv(2 * power, k) + AtanhSeries(z2, Mul(power, z2), k + 2)

\* log(x) for x > 0: reduced to 1 <= x < 2 by halving and doubling
RECURSIVE Ln(_)
Ln(x) ==
    IF x >= 2 * SCALE THEN LN2 + Ln(RoundDiv(x, 2))
    ELSE IF x < SCALE THEN Ln(2 * x) - LN2
    ELSE LET z == Div(x - SCALE, x + SCALE)
         IN  AtanhSeries(Mul(z, z), z, 1)

\* numpy.power(x, e) for x >= 0: x^0 = 1, x^1 = x, 0^e = 0 for e > 0
Power(x, e) ==
    IF e = 0 THEN SCALE
    ELSE IF e = SCALE THEN x
    ELSE IF x = 0 THEN 0
    ELSE Exp(Mul(e, Ln(x)))

RECURSIVE IsqrtIter(_, _)
IsqrtIter(n, x) ==
    LET y == (x + n \div x) \div 2
    IN  IF y >= x THEN x ELSE IsqrtIter(n, y)

\* floor(sqrt(n))
Isqrt(n) == IF n <= 0 THEN 0 ELSE IsqrtIter(n, n)

(***************************************************************************)
(* processing: normalize, clean_spectrum, match_peaks_in_spectra,          *)
(* transform_int.  A spectrum is a sequence of peaks <<mz, intensity>>; an *)
(* intensity vector is a sequence of numbers.                              *)
(***************************************************************************)
Column(spec, c) == [k \in 1..Len(spec) |-> spec[k][c]]

\* spec with its intensity column replaced by ints
WithIntensities(spec, ints) == [k \in 1..Len(spec) |-> <<spec[k][1], ints[k]>>]

\* Normalizer (4.1): standard divides by the sum and leaves an all-zero vector
\* unchanged; softmax exponentiates after subtracting the largest element.
normalize(ints, method) ==
    IF ints = <<>> THEN ints
    ELSE IF method = "softmax"
    THEN LET m == MaxSeq(ints)
             e == [k \in 1..Len(ints) |-> Exp(ints[k] - m)]
             t == SumSeq(e)
         IN  [k \in 1..Len(ints) |-> Div(e[k], t)]
    ELSE LET t == SumSeq(ints)
         IN  IF t = 0 THEN ints
             ELSE [k \in 1..Len(ints) |-> Div(ints[k], t)]

\* Shannon entropy -sum p log p, with 0 log 0 = 0
RECURSIVE ent_shannon(_)
ent_shannon(p) ==
    IF p = <<>> THEN 0
    ELSE (IF Head(p) > 0 THEN -Mul(Head(p), Ln(Head(p))) ELSE 0)
         + ent_shannon(Tail(p))

\* sum of p_i^q
RECURSIVE SumPower(_, _)
SumPower(p, q) ==
    IF p = <<>> THEN 0 ELSE Power(Head(p), q) + SumPower(Tail(p), q)

\* spec with the peak pk inserted before the first peak of larger m/z
RECURSIVE InsertByMz(_, _)
InsertByMz(pk, spec) ==
    IF spec = <<>> THEN <<pk>>
    ELSE IF Head(spec)[1] > pk[1] THEN <<pk>> \o spec
    ELSE <<Head(spec)>> \o InsertByMz(pk, Tail(spec))

RECURSIVE SortByMz(_)
SortByMz(spec) ==
    IF spec = <<>> THEN <<>>
    ELSE InsertByMz(spec[Len(spec)], SortByMz(SubSeq(spec, 1, Len(spec) - 1)))

\* noise removal: the peaks of intensity at least noise_removal * max(intensity)
remove_noise(spec, noise_removal) ==
    IF spec = <<>> THEN spec
    ELSE LET cut == Mul(noise_removal, MaxSeq(Column(spec, 2)))
         IN  SelectSeq(spec, LAMBDA pk : pk[2] >= cut)

\* Centroiding of a spectrum sorted by m/z: consecutive peaks at most
\* window_size apart form one cluster; the cluster keeps the m/z of its
\* highest peak and the sum of its intensities.  cur is the open cluster
\* <<m/z of its highest peak, height of that peak, summed intensity, last m/z>>.
RECURSIVE Centroid(_, _, _)
Centroid(spec, cur, window_size) ==
    IF spec = <<>> THEN <<(<<cur[1], cur[3]>>)>>
    ELSE LET pk == Head(spec)
         IN  IF pk[1] - cur[4] <= window_size
             THEN Centroid(Tail(spec),
                           IF pk[2] > cur[2]
                           THEN <<pk[1], pk[2], cur[3] + pk[2], pk[1]>>
                           ELSE <<cur[1], cur[2], cur[3] + pk[2], pk[1]>>,
                           window_size)
             ELSE <<(<<cur[1], cur[3]>>)>>
                  \o Centroid(Tail(spec), <<pk[1], pk[2], pk[2], pk[1]>>, window_size)

centroid_spectrum(spec, window_size) ==
    IF spec = <<>> THEN spec
    ELSE LET s == SortByMz(spec)
         IN  Centroid(Tail(s), <<s[1][1], s[1][2], s[1][2], s[1][1]>>, window_size)

\* Cleaner (4.2): noise removal, then centroiding; peaks sorted by m/z
clean_spectrum(spec, noise_removal, window_size) ==
    centroid_spectrum(remove_noise(spec, noise_removal), window_size)

\* The peaks of both spectra as <<mz, intensity in a, intensity in b>>, sorted
RECURSIVE InsertTriple(_, _)
InsertTriple(t, ts) ==
    IF ts = <<>> THEN <<t>>
    ELSE IF Head(ts)[1] > t[1] THEN <<t>> \o ts
    ELSE <<Head(ts)>> \o InsertTriple(t, Tail(ts))

RECURSIVE SortTriples(_)
SortTriples(ts) ==
    IF ts = <<>> THEN <<>>
    ELSE InsertTriple(ts[Len(ts)], SortTriples(SubSeq(ts, 1, Len(ts) - 1)))

\* Bins of the sorted union: consecutive positions at most window_size apart
\* collapse into one bin, which keeps the m/z of its highest peak and the
\* summed intensity of each side.  cur is the open bin
\* <<m/z of its highest peak, height of that peak, sum in a, sum in b, last m/z>>.
RECURSIVE Bins(_, _, _)
Bins(ts, cur, window_size) ==
    IF ts = <<>> THEN <<(<<cur[1], cur[3], cur[4]>>)>>
    ELSE LET t == Head(ts)
             h == t[2] + t[3]
         IN  IF t[1] - cur[5] <= window_size
             THEN Bins(Tail(ts),
                       IF h > cur[2]
                       THEN <<t[1], h, cur[3] + t[2], cur[4] + t[3], t[1]>>
                       ELSE <<cur[1], cur[2], cur[3] + t[2], cur[4] + t[3], t[1]>>,
                       window_size)
             ELSE <<(<<cur[1], cur[3], cur[4]>>)>>
                  \o Bins(Tail(ts), <<t[1], h, t[2], t[3], t[1]>>, window_size)

\* Matcher (4.3): one row <<bin m/z, query intensity, reference intensity>>
\* per bin of the union of both spectra, a side without a peak in a bin
\* contributing 0; bins in ascending m/z.
match_peaks_in_spectra(spec_a, spec_b, window_size) ==
    LET ta == [k \in 1..Len(spec_a) |-> <<spec_a[k][1], spec_a[k][2], 0>>]
        tb == [k \in 1..Len(spec_b) |-> <<spec_b[k][1], 0, spec_b[k][2]>>]
        ts == SortTriples(ta \o tb)
    IN  IF ts = <<>> THEN <<>>
        ELSE Bins(Tail(ts),
                  <<ts[1][1], ts[1][2] + ts[1][3], ts[1][2], ts[1][3], ts[1][1]>>,
                  window_size)

\* Low-entropy transform (4.5): with S the Shannon entropy of the normalized
\* vector, intensity^((1+S)/(1+LET_threshold)) when S < LET_threshold.
transform_int(ints, LET_threshold, method) ==
    LET S == ent_shannon(normalize(ints, method))
    IN  IF S < LET_threshold
        THEN LET e == Div(SCALE + S, SCALE + LET_threshold)
             IN  [k \in 1..Len(ints) |-> Power(ints[k], e)]
        ELSE ints

(***************************************************************************)
(* similarity_measures (4.7).  Each takes two vectors of equal length.     *)
(***************************************************************************)
RECURSIVE Dot(_, _)
Dot(a, b) == IF a = <<>> THEN 0 ELSE Head(a) * Head(b) + Dot(Tail(a), Tail(b))

\* cosine: dot(a,b) / (|a| |b|), and 0 when either norm is 0
S_cos(a, b) ==
    LET na == Isqrt(Dot(a, a))
        nb == Isqrt(Dot(b, b))
    IN  IF na = 0 \/ nb = 0 THEN 0
        ELSE RoundDiv(RoundDiv(Dot(a, b) * 10, na) * (SCALE \div 10), nb)

Merged(a, b) == [k \in 1..Len(a) |-> RoundDiv(a[k] + b[k], 2)]

\* 1 - (2 H((a+b)/2) - H(a) - H(b)) / log 4
Similarity(Hm, Ha, Hb) == SCALE - Div(2 * Hm - Ha - Hb, 2 * LN2)

S_shannon(a, b) ==
    Similarity(ent_shannon(Merged(a, b)), ent_shannon(a), ent_shannon(b))

\* Renyi entropy (1/(1-q)) log(sum p_i^q), for q /= 1; 0 for the zero vector
ent_renyi(p, q) ==
    LET t == SumPower(p, q)
    IN  IF t = 0 THEN 0 ELSE Div(Ln(t), SCALE - q)

\* Tsallis entropy (1/(q-1)) (1 - sum p_i^q), for q /= 1
ent_tsallis(p, q) == Div(SCALE - SumPower(p, q), q - SCALE)

S_renyi(a, b, q) ==
    Similarity(ent_renyi(Merged(a, b), q), ent_renyi(a, q), ent_renyi(b, q))

S_tsallis(a, b, q) ==
    Similarity(ent_tsallis(Merged(a, b), q), ent_tsallis(a, q), ent_tsallis(b, q))

(***************************************************************************)
(* pandas: Series.unique, Series.nlargest(n, keep='all'), ';'.join         *)
(***************************************************************************)
InSeq(x, s) == \E k \in 1..Len(s) : s[k] = x

\* the distinct values of a column, in order of first appearance
RECURSIVE unique(_)
unique(col) ==
    IF col = <<>> THEN <<>>
    ELSE LET u == unique(SubSeq(col, 1, Len(col) - 1))
             x == col[Len(col)]
         IN  IF InSeq(x, u) THEN u ELSE Append(u, x)

\* series with the element e inserted after every element of value >= e's:
\* descending by value, equal values in their original order
RECURSIVE InsertDesc(_, _)
InsertDesc(e, series) ==
    IF series = <<>> THEN <<e>>
    ELSE IF Head(series)[2] < e[2] THEN <<e>> \o series
    ELSE <<Head(series)>> \o InsertDesc(e, Tail(series))

RECURSIVE SortDesc(_)
SortDesc(series) ==
    IF series = <<>> THEN <<>>
    ELSE InsertDesc(series[Len(series)], SortDesc(SubSeq(series, 1, Len(series) - 1)))

\* keep = 'first': the n first elements of the sorted series
nlargest_first(series, n) ==
    LET sorted == SortDesc(series)
    IN  IF n <= 0 THEN <<>>
        ELSE IF n >= Len(series) THEN sorted
        ELSE SubSeq(sorted, 1, n)

\* Series.nlargest(n, keep='all'): a series is a sequence of <<label, value>>.
\* Empty for n <= 0; the whole series sorted for n >= len; otherwise every
\* element whose value is at least the n-th largest value, sorted.
nlargest(series, n) ==
    LET sorted == SortDesc(series)
    IN  IF n <= 0 THEN <<>>
        ELSE IF n >= Len(series) THEN sorted
        ELSE SelectSeq(sorted, LAMBDA e : e[2] >= sorted[n][2])

\* ';'.join(map(str, labels))
RECURSIVE Join(_)
Join(labels) ==
    IF labels = <<>> THEN ""
    ELSE IF Len(labels) = 1 THEN labels[1]
    ELSE labels[1] \o ";" \o Join(Tail(labels))

(***************************************************************************)
(* Command-line arguments.  An argument is <<>> when it was not passed     *)
(* (None) and <<v>> when it was passed with the value v.                   *)
(***************************************************************************)
None == <<>>

Given(v) == <<v>>

\* the defaults of the two scripts
DefaultWfMz == 0

DefaultWfIntensity == 1000

DefaultEntropyDimension == 1100

DefaultWindowSize == 500

DefaultNoiseThreshold == 0

DefaultLETThreshold == 0

DefaultNTopMatches == 1

DefaultPreprocessingOrder == <<"C", "M", "W", "L">>

OrDefault(arg, default) == IF arg = None THEN default ELSE arg[1]

Measures == {"cosine", "shannon", "renyi", "tsallis"}

Stages == {"C", "M", "W", "L"}

(***************************************************************************)
(* Bounds and inputs                                                       *)
(***************************************************************************)
\* rows read from the query file and from the reference file
MaxQueryRows == 2

MaxReferenceRows == 3

\* characters of --spectrum_preprocessing_order
MaxOrderLen == 2

\* largest --n_top_matches_to_save
MaxNTop == 2

Min(a, b) == IF a <= b THEN a ELSE b

\* LCMS files: one row <<identifier, m/z, intensity>> per peak.  The tables
\* read are the first rows of these.
LibraryQueryLCMS ==
    << <<"q1", 1000, 3000>>, <<"q2", 3000, 1000>>, <<"q1", 1400, 1000>>,
       <<"q3", 3000, 2000>> >>

LibraryReferenceLCMS ==
    << <<"r1", 1000, 3000>>, <<"r2", 1000, 3000>>, <<"r1", 3000, 3000>>,
       <<"r3", 1400, 2000>>, <<"r4", 3000, 1000>> >>

\* GCMS files: one row <<identifier, intensities at m/z 1, 2, 3>> per spectrum
LibraryQueryGCMS ==
    << <<"q1", <<1000, 3000, 0>>>>, <<"q2", <<2000, 2000, 1000>>>>,
       <<"q3", <<0, 0, 0>>>>, <<"q4", <<0, 1000, 0>>>> >>

LibraryReferenceGCMS ==
    << <<"r1", <<1000, 3000, 0>>>>, <<"r2", <<3000, 1000, 0>>>>,
       <<"r1", <<1000, 3000, 0>>>>, <<"r4", <<0, 1000, 3000>>>>,
       <<"r5", <<2000, 2000, 1000>>>> >>

Prefixes(table, n) == {SubSeq(table, 1, k) : k \in 1..Min(n, Len(table))}

\* every string of 1..n characters of the alphabet
RECURSIVE Strings(_, _)
Strings(alphabet, n) ==
    IF n = 0 THEN {<<>>}
    ELSE LET shorter == Strings(alphabet, n - 1)
         IN  shorter \cup {Append(w, c) : w \in shorter, c \in alphabet}

\* the stage letters and a character that names no stage
OrderAlphabet == Stages \cup {"X"}

OrderArgs ==
    {None} \cup {Given(w) : w \in Strings(OrderAlphabet, MaxOrderLen) \ {<<>>}}

MeasureArgs ==
    {None, Given("shannon"), Given("renyi"), Given("tsallis"), Given("euclidean")}

NormalizationArgs == {None, Given("softmax")}

EntropyDimensionArgs == {None, Given(SCALE), Given(2 * SCALE)}

NTopArgs == {None} \cup {Given(n) : n \in 2..MaxNTop}

\* --wf_mz and --wf_intensity: not passed, or 1 and 0.5
WeightArgs ==
    { [wf_mz |-> None, wf_intensity |-> None],
      [wf_mz |-> Given(SCALE), wf_intensity |-> Given(SCALE \div 2)] }

\* --noise_threshold: not passed, or 0.5
NoiseThresholdArgs == {None, Given(SCALE \div 2)}

\* --LET_threshold: not passed, or 1
LETThresholdArgs == {None, Given(SCALE)}

NoArgs ==
    [similarity_measure |-> None, normalization_method |-> None,
     entropy_dimension |-> None, n_top_matches_to_save |-> None,
     spectrum_preprocessing_order |-> None, window_size |-> None,
     wf_mz |-> None, wf_intensity |-> None, noise_threshold |-> None,
     LET_threshold |-> None]

(***************************************************************************)
(* State                                                                   *)
(***************************************************************************)
VARIABLES
    engine,                \* "lcms" or "gcms": the script that runs
    args,                  \* the parsed command line
    df_query,              \* the query table
    df_reference,          \* the reference table
    conf,                  \* the parameters loaded from args
    pc,                    \* where the script is
    unique_query_ids,      \* LCMS
    unique_reference_ids,  \* LCMS
    query_idx,
    ref_idx,
    q_spec,                \* LCMS: the query spectrum being transformed
    r_spec,                \* LCMS: the reference spectrum being transformed
    query_spec,            \* GCMS: the query intensities
    tpos,                  \* LCMS: position in spectrum_preprocessing_order
    similarity_scores,
    all_similarity_scores,
    df_scores,
    top_ref_specs_tmp,
    out,
    df_top_ref_specs,
    files,                 \* the two output files, None until written
    base,                  \* LCMS: whose memory q_spec and r_spec write into
    loaded,                \* history: the two tables as they were read
    applied,               \* history: the stages applied to the current pair
    called,                \* history: the library functions called so far
    computed               \* history: the scores computed, in order

vars ==
    <<engine, args, df_query, df_reference, conf, pc, unique_query_ids,
      unique_reference_ids, query_idx, ref_idx, q_spec, r_spec, query_spec,
      tpos, similarity_scores, all_similarity_scores, df_scores,
      top_ref_specs_tmp, out, df_top_ref_specs, files, base, loaded,
      applied, called, computed>>

inputs == <<engine, args, df_query, df_reference>>

\* An array that is no view of a table writes into memory of its own
Owned == "owned"

InitRun ==
    /\ conf = None
    /\ pc = "start"
    /\ unique_query_ids = <<>>
    /\ unique_reference_ids = <<>>
    /\ query_idx = 1
    /\ ref_idx = 1
    /\ q_spec = <<>>
    /\ r_spec = <<>>
    /\ query_spec = <<>>
    /\ tpos = 1
    /\ similarity_scores = <<>>
    /\ all_similarity_scores = <<>>
    /\ df_scores = None
    /\ top_ref_specs_tmp = <<>>
    /\ out = <<>>
    /\ df_top_ref_specs = None
    /\ files = [identification |-> None, similarity_scores |-> None]
    /\ base = [q_spec |-> Owned, r_spec |-> Owned]
    /\ loaded = [df_query |-> df_query, df_reference |-> df_reference]
    /\ applied = <<>>
    /\ called = {}
    /\ computed = <<>>

\* LCMS runs that vary the preprocessing order and its parameters
InitPipelineLCMS ==
    /\ engine = "lcms"
    /\ df_query \in Prefixes(LibraryQueryLCMS, MaxQueryRows)
    /\ df_reference \in Prefixes(LibraryReferenceLCMS, MaxReferenceRows)
    /\ \E o \in OrderArgs, w \in WeightArgs, nt \in NoiseThresholdArgs,
          lt \in LETThresholdArgs :
          args = [NoArgs EXCEPT !.spectrum_preprocessing_order = o,
                                !.wf_mz = w.wf_mz,
                                !.wf_intensity = w.wf_intensity,
                                !.noise_threshold = nt,
                                !.LET_threshold = lt]
    /\ InitRun

\* LCMS runs that vary the measure, the normalization and the top-N size
InitMeasureLCMS ==
    /\ engine = "lcms"
    /\ df_query \in Prefixes(LibraryQueryLCMS, MaxQueryRows)
    /\ df_reference \in Prefixes(LibraryReferenceLCMS, MaxReferenceRows)
    /\ \E m \in MeasureArgs, nm \in NormalizationArgs,
          e \in EntropyDimensionArgs, n \in NTopArgs :
          args = [NoArgs EXCEPT !.similarity_measure = m,
                                !.normalization_method = nm,
                                !.entropy_dimension = e,
                                !.n_top_matches_to_save = n]
    /\ InitRun

InitGCMS ==
    /\ engine = "gcms"
    /\ df_query \in Prefixes(LibraryQueryGCMS, MaxQueryRows)
    /\ df_reference \in Prefixes(LibraryReferenceGCMS, MaxReferenceRows)
    /\ \E m \in MeasureArgs, nm \in NormalizationArgs,
          e \in EntropyDimensionArgs, n \in NTopArgs, w \in WeightArgs :
          args = [NoArgs EXCEPT !.similarity_measure = m,
                                !.normalization_method = nm,
                                !.entropy_dimension = e,
                                !.n_top_matches_to_save = n,
                                !.wf_mz = w.wf_mz,
                                !.wf_intensity = w.wf_intensity]
    /\ InitRun

Init == InitPipelineLCMS \/ InitMeasureLCMS \/ InitGCMS

(***************************************************************************)
(* Loading the parameters                                                  *)
(***************************************************************************)
\* q is assigned only when --similarity_measure is renyi or tsallis
EntropyDimension(a) ==
    IF a.similarity_measure \in {Given("renyi"), Given("tsallis")}
    THEN Given(OrDefault(a.entropy_dimension, DefaultEntropyDimension))
    ELSE None

LoadParametersLCMS ==
    /\ pc = "start"
    /\ engine = "lcms"
    /\ conf' =
          [spectrum_preprocessing_order |->
               OrDefault(args.spectrum_preprocessing_order, DefaultPreprocessingOrder),
           wf_mz |-> OrDefault(args.wf_mz, DefaultWfMz),
           wf_intensity |-> OrDefault(args.wf_intensity, DefaultWfIntensity),
           q |-> EntropyDimension(args),
           window_size |-> OrDefault(args.window_size, DefaultWindowSize),
           noise_threshold |-> OrDefault(args.noise_threshold, DefaultNoiseThreshold),
           LET_threshold |-> OrDefault(args.LET_threshold, DefaultLETThreshold),
           normalization_method |-> OrDefault(args.normalization_method, "standard"),
           similarity_measure |-> OrDefault(args.similarity_measure, "cosine"),
           n_top_matches_to_save |->
               OrDefault(args.n_top_matches_to_save, DefaultNTopMatches)]
    /\ unique_query_ids' = unique(Column(df_query, 1))
    /\ unique_reference_ids' = unique(Column(df_reference, 1))
    /\ all_similarity_scores' = <<>>
    /\ query_idx' = 1
    /\ pc' = "queries"
    /\ UNCHANGED <<inputs, loaded, base, ref_idx, q_spec, r_spec, query_spec, tpos,
                   similarity_scores, df_scores, top_ref_specs_tmp, out,
                   df_top_ref_specs, files, applied, called, computed>>

LoadParametersGCMS ==
    /\ pc = "start"
    /\ engine = "gcms"
    /\ conf' =
          [wf_mz |-> OrDefault(args.wf_mz, DefaultWfMz),
           wf_intensity |-> OrDefault(args.wf_intensity, DefaultWfIntensity),
           q |-> EntropyDimension(args),
           normalization_method |-> OrDefault(args.normalization_method, "standard"),
           similarity_measure |-> OrDefault(args.similarity_measure, "cosine"),
           n_top_matches_to_save |->
               OrDefault(args.n_top_matches_to_save, DefaultNTopMatches)]
    /\ all_similarity_scores' = <<>>
    /\ query_idx' = 1
    /\ pc' = "queries"
    /\ UNCHANGED <<inputs, loaded, base, unique_query_ids, unique_reference_ids, ref_idx,
                   q_spec, r_spec, query_spec, tpos, similarity_scores,
                   df_scores, top_ref_specs_tmp, out, df_top_ref_specs, files,
                   applied, called, computed>>

(***************************************************************************)
(* The similarity measure of a pair                                        *)
(***************************************************************************)
\* the library functions the measure step calls, in the order of the calls
MeasureCalls(measure) ==
    IF measure = "cosine" THEN {"S_cos"}
    ELSE {"normalize"} \cup
         (IF measure = "shannon" THEN {"S_shannon"}
          ELSE IF measure = "renyi" THEN {"S_renyi"}
          ELSE IF measure = "tsallis" THEN {"S_tsallis"}
          ELSE {})

\* Renyi or Tsallis with q = 1: 1/(1-q) is undefined, and the measure either
\* falls back to the Shannon computation or is rejected (4.7)
DegenerateOrder(c) ==
    c.similarity_measure \in {"renyi", "tsallis"} /\ c.q = Given(SCALE)

\* the if/elif chain on similarity_measure, on the vectors a and b
similarity(c, a, b) ==
    IF c.similarity_measure = "cosine" THEN S_cos(a, b)
    ELSE LET na == normalize(a, c.normalization_method)
             nb == normalize(b, c.normalization_method)
         IN  IF c.similarity_measure = "shannon" \/ DegenerateOrder(c)
             THEN S_shannon(na, nb)
             ELSE IF c.similarity_measure = "renyi" THEN S_renyi(na, nb, c.q[1])
             ELSE S_tsallis(na, nb, c.q[1])

\* a score comes out: the measure is one of the four names (otherwise
\* similarity_score is unbound at the append) and the vectors have one length
Scorable(c, a, b) == c.similarity_measure \in Measures /\ Len(a) = Len(b)

(***************************************************************************)
(* LCMS: the query x reference loop                                        *)
(***************************************************************************)
\* the rows of a table with the given identifier, as peaks <<mz, intensity>>
Spectrum(df, id) ==
    LET rows == SelectSeq(df, LAMBDA row : row[1] = id)
    IN  [k \in 1..Len(rows) |-> <<rows[k][2], rows[k][3]>>]

\* whose memory a view of the table would write into (mutation of
\* asarray_base: the array built from the table taken for a view of it)
asarray_base_view(table) == table

\* whose memory np.asarray(pd.concat([df.iloc[idxs,1], df.iloc[idxs,2]],
\* axis=1).reset_index(drop=True)) writes into: df.iloc with an array of
\* positions takes copies of the rows and concat builds a new frame, so the
\* array shares nothing with the table it was read from
asarray_base(table) == Owned

\* the table once the intensities of spec are stored into its rows of the
\* given identifier, which is what a store into a view of these rows does
Stored(df, id, spec) ==
    LET pos(k) == Cardinality({j \in 1..k : df[j][1] = id})
    IN  [k \in 1..Len(df) |->
            IF df[k][1] = id
            THEN <<df[k][1], df[k][2], spec[pos(k)][2]>>
            ELSE df[k]]

\* q_spec[:,1] = ... and r_spec[:,1] = ... store into the arrays' memory:
\* the tables change exactly when that memory is theirs
StoreInPlace ==
    /\ df_query' =
          IF base.q_spec = "df_query"
          THEN Stored(df_query, unique_query_ids[query_idx], q_spec')
          ELSE df_query
    /\ df_reference' =
          IF base.r_spec = "df_reference"
          THEN Stored(df_reference, unique_reference_ids[ref_idx], r_spec')
          ELSE df_reference
    /\ UNCHANGED base

\* q_spec = clean_spectrum(...), q_spec = m_spec[:,0:2]: the names are bound
\* to new arrays and nothing is stored
Rebound ==
    /\ base' = [q_spec |-> Owned, r_spec |-> Owned]
    /\ UNCHANGED <<df_query, df_reference>>

\* q_spec is bound here, once per query, above the reference loop
NextQueryLCMS ==
    /\ pc = "queries"
    /\ engine = "lcms"
    /\ query_idx <= Len(unique_query_ids)
    /\ q_spec' = Spectrum(df_query, unique_query_ids[query_idx])
    /\ base' = [base EXCEPT !.q_spec = asarray_base("df_query")]
    /\ similarity_scores' = <<>>
    /\ ref_idx' = 1
    /\ pc' = "references"
    /\ UNCHANGED <<inputs, loaded, conf, unique_query_ids, unique_reference_ids,
                   query_idx, r_spec, query_spec, tpos, all_similarity_scores,
                   df_scores, top_ref_specs_tmp, out, df_top_ref_specs, files,
                   applied, called, computed>>

NextReferenceLCMS ==
    /\ pc = "references"
    /\ engine = "lcms"
    /\ ref_idx <= Len(unique_reference_ids)
    /\ r_spec' = Spectrum(df_reference, unique_reference_ids[ref_idx])
    /\ base' = [base EXCEPT !.r_spec = asarray_base("df_reference")]
    /\ tpos' = 1
    /\ applied' = <<>>
    /\ pc' = "transform"
    /\ UNCHANGED <<inputs, loaded, conf, unique_query_ids, unique_reference_ids,
                   query_idx, ref_idx, q_spec, query_spec, similarity_scores,
                   all_similarity_scores, df_scores, top_ref_specs_tmp, out,
                   df_top_ref_specs, files, called, computed>>

InTransform(stage) ==
    /\ pc = "transform"
    /\ tpos <= Len(conf.spectrum_preprocessing_order)
    /\ conf.spectrum_preprocessing_order[tpos] = stage

TransformFrame ==
    UNCHANGED <<engine, args, loaded, conf, unique_query_ids, unique_reference_ids,
                query_idx, ref_idx, query_spec, similarity_scores,
                all_similarity_scores, df_scores, top_ref_specs_tmp, out,
                df_top_ref_specs, files, computed, pc>>

Clean ==
    /\ InTransform("C")
    /\ q_spec' = clean_spectrum(q_spec, conf.noise_threshold, conf.window_size)
    /\ r_spec' = clean_spectrum(r_spec, conf.noise_threshold, conf.window_size)
    /\ tpos' = tpos + 1
    /\ applied' = Append(applied, "C")
    /\ called' = called \cup {"clean_spectrum"}
    /\ Rebound
    /\ TransformFrame

Match ==
    /\ InTransform("M")
    /\ LET m_spec == match_peaks_in_spectra(q_spec, r_spec, conf.window_size)
       IN  /\ q_spec' = [k \in 1..Len(m_spec) |-> <<m_spec[k][1], m_spec[k][2]>>]
           /\ r_spec' = [k \in 1..Len(m_spec) |-> <<m_spec[k][1], m_spec[k][3]>>]
    /\ tpos' = tpos + 1
    /\ applied' = Append(applied, "M")
    /\ called' = called \cup {"match_peaks_in_spectra"}
    /\ Rebound
    /\ TransformFrame

\* intensity <- mz^wf_mz * intensity^wf_intensity
Weighted(mzs, ints, wf_mz, wf_intensity) ==
    [k \in 1..Len(ints) |->
        Mul(Power(mzs[k], wf_mz), Power(ints[k], wf_intensity))]

Weight ==
    /\ InTransform("W")
    /\ q_spec' = WithIntensities(q_spec,
                    Weighted(Column(q_spec, 1), Column(q_spec, 2),
                             conf.wf_mz, conf.wf_intensity))
    /\ r_spec' = WithIntensities(r_spec,
                    Weighted(Column(r_spec, 1), Column(r_spec, 2),
                             conf.wf_mz, conf.wf_intensity))
    /\ tpos' = tpos + 1
    /\ applied' = Append(applied, "W")
    /\ called' = called \cup {"power"}
    /\ StoreInPlace
    /\ TransformFrame

LowEntropy ==
    /\ InTransform("L")
    /\ q_spec' = WithIntensities(q_spec,
                    transform_int(Column(q_spec, 2), conf.LET_threshold,
                                  conf.normalization_method))
    /\ r_spec' = WithIntensities(r_spec,
                    transform_int(Column(r_spec, 2), conf.LET_threshold,
                                  conf.normalization_method))
    /\ tpos' = tpos + 1
    /\ applied' = Append(applied, "L")
    /\ called' = called \cup {"transform_int"}
    /\ StoreInPlace
    /\ TransformFrame

\* a character that is none of C, M, W, L matches no if of the loop body
NoStage ==
    /\ pc = "transform"
    /\ tpos <= Len(conf.spectrum_preprocessing_order)
    /\ conf.spectrum_preprocessing_order[tpos] \notin Stages
    /\ tpos' = tpos + 1
    /\ UNCHANGED <<q_spec, r_spec, applied, called, df_query, df_reference,
                   base>>
    /\ TransformFrame

\* the vectors handed to the measure, once the loop over the order is over
AtMeasure ==
    /\ engine = "lcms"
    /\ pc = "transform"
    /\ tpos > Len(conf.spectrum_preprocessing_order)

q_ints == Column(q_spec, 2)

r_ints == Column(r_spec, 2)

ScoreLCMS ==
    /\ AtMeasure
    /\ Scorable(conf, q_ints, r_ints)
    /\ LET similarity_score == similarity(conf, q_ints, r_ints)
       IN  /\ similarity_scores' = Append(similarity_scores, similarity_score)
           /\ computed' = Append(computed,
                 [query_idx |-> query_idx, ref_idx |-> ref_idx,
                  score |-> similarity_score])
    /\ called' = called \cup MeasureCalls(conf.similarity_measure)
    /\ ref_idx' = ref_idx + 1
    /\ pc' = "references"
    /\ UNCHANGED <<inputs, loaded, base, conf, unique_query_ids, unique_reference_ids,
                   query_idx, q_spec, r_spec, query_spec, tpos,
                   all_similarity_scores, df_scores, top_ref_specs_tmp, out,
                   df_top_ref_specs, files, applied>>

\* the script ends on an exception: vectors of two lengths, a measure name
\* that leaves similarity_score unbound, or a measure that rejects q = 1
ScoreRaisesLCMS ==
    /\ AtMeasure
    /\ ~Scorable(conf, q_ints, r_ints) \/ DegenerateOrder(conf)
    /\ called' = called \cup MeasureCalls(conf.similarity_measure)
    /\ pc' = "crashed"
    /\ UNCHANGED <<inputs, loaded, base, conf, unique_query_ids, unique_reference_ids,
                   query_idx, ref_idx, q_spec, r_spec, query_spec, tpos,
                   similarity_scores, all_similarity_scores, df_scores,
                   top_ref_specs_tmp, out, df_top_ref_specs, files, applied,
                   computed>>

(***************************************************************************)
(* GCMS: the query x reference loop                                        *)
(***************************************************************************)
\* mzs = linspace(1, ncols - 1, ncols - 1)
mzs == [k \in 1..Len(df_query[1][2]) |-> k * SCALE]

NextQueryGCMS ==
    /\ pc = "queries"
    /\ engine = "gcms"
    /\ query_idx <= Len(df_query)
    /\ query_spec' = Weighted(mzs, df_query[query_idx][2], conf.wf_mz,
                              conf.wf_intensity)
    /\ similarity_scores' = <<>>
    /\ ref_idx' = 1
    /\ pc' = "references"
    /\ UNCHANGED <<inputs, loaded, base, conf, unique_query_ids, unique_reference_ids,
                   query_idx, q_spec, r_spec, tpos, all_similarity_scores,
                   df_scores, top_ref_specs_tmp, out, df_top_ref_specs, files,
                   applied, called, computed>>

AtReferenceGCMS ==
    /\ pc = "references"
    /\ engine = "gcms"
    /\ ref_idx <= Len(df_reference)

ref_spec == Weighted(mzs, df_reference[ref_idx][2], conf.wf_mz, conf.wf_intensity)

\* off the cosine branch, query_spec is rebound to its normalization
NormalizedQuery(c, spec) ==
    IF c.similarity_measure = "cosine" THEN spec
    ELSE normalize(spec, c.normalization_method)

\* the if/elif chain on similarity_measure, on query_spec as rebound and
\* ref_spec
similarityGCMS(c, spec, ref) ==
    IF c.similarity_measure = "cosine" THEN S_cos(spec, ref)
    ELSE LET nr == normalize(ref, c.normalization_method)
         IN  IF c.similarity_measure = "shannon" \/ DegenerateOrder(c)
             THEN S_shannon(spec, nr)
             ELSE IF c.similarity_measure = "renyi" THEN S_renyi(spec, nr, c.q[1])
             ELSE S_tsallis(spec, nr, c.q[1])

ScoreGCMS ==
    /\ AtReferenceGCMS
    /\ Scorable(conf, query_spec, ref_spec)
    /\ query_spec' = NormalizedQuery(conf, query_spec)
    /\ LET similarity_score == similarityGCMS(conf, query_spec', ref_spec)
       IN  /\ similarity_scores' = Append(similarity_scores, similarity_score)
           /\ computed' = Append(computed,
                 [query_idx |-> query_idx, ref_idx |-> ref_idx,
                  score |-> similarity_score])
    /\ called' = called \cup MeasureCalls(conf.similarity_measure)
    /\ ref_idx' = ref_idx + 1
    /\ UNCHANGED <<inputs, loaded, base, conf, unique_query_ids, unique_reference_ids,
                   query_idx, q_spec, r_spec, tpos, all_similarity_scores,
                   df_scores, top_ref_specs_tmp, out, df_top_ref_specs, files,
                   applied, pc>>

ScoreRaisesGCMS ==
    /\ AtReferenceGCMS
    /\ ~Scorable(conf, query_spec, ref_spec) \/ DegenerateOrder(conf)
    /\ query_spec' = NormalizedQuery(conf, query_spec)
    /\ called' = called \cup MeasureCalls(conf.similarity_measure)
    /\ pc' = "crashed"
    /\ UNCHANGED <<inputs, loaded, base, conf, unique_query_ids, unique_reference_ids,
                   query_idx, ref_idx, q_spec, r_spec, tpos, similarity_scores,
                   all_similarity_scores, df_scores, top_ref_specs_tmp, out,
                   df_top_ref_specs, files, applied, computed>>

(***************************************************************************)
(* Both engines: the score matrix, the top matches, the output files       *)
(***************************************************************************)
\* the identifiers of the rows and of the columns of the score matrix
QueryIds == IF engine = "lcms" THEN unique_query_ids ELSE Column(df_query, 1)

ReferenceIds ==
    IF engine = "lcms" THEN unique_reference_ids ELSE Column(df_reference, 1)

\* all_similarity_scores.append(similarity_scores), at the end of the
\* reference loop
EndReferences ==
    /\ pc = "references"
    /\ ref_idx > Len(ReferenceIds)
    /\ all_similarity_scores' = Append(all_similarity_scores, similarity_scores)
    /\ query_idx' = query_idx + 1
    /\ pc' = "queries"
    /\ UNCHANGED <<inputs, loaded, base, conf, unique_query_ids, unique_reference_ids,
                   ref_idx, q_spec, r_spec, query_spec, tpos, similarity_scores,
                   df_scores, top_ref_specs_tmp, out, df_top_ref_specs, files,
                   applied, called, computed>>

\* the labels of the rows and of the columns taken for one another
DataFrame_swapped(data, columns, index) ==
    [data |-> data, columns |-> index, index |-> columns]

\* pd.DataFrame(data, columns = columns), then .index = index
DataFrame(data, columns, index) ==
    [data |-> data, columns |-> columns, index |-> index]

BuildScores ==
    /\ pc = "queries"
    /\ query_idx > Len(QueryIds)
    /\ df_scores' = Given(DataFrame(all_similarity_scores, ReferenceIds, QueryIds))
    /\ out' = <<>>
    /\ pc' = "top"
    /\ UNCHANGED <<inputs, loaded, base, conf, unique_query_ids, unique_reference_ids,
                   query_idx, ref_idx, q_spec, r_spec, query_spec, tpos,
                   similarity_scores, all_similarity_scores, top_ref_specs_tmp,
                   df_top_ref_specs, files, applied, called, computed>>

\* df.iloc[i, :] : the series of row i, labelled by the columns
Row(df, i) == [k \in 1..Len(df.columns) |-> <<df.columns[k], df.data[i][k]>>]

\* values[-1]
first_value_last(series) == series[Len(series)][2]

\* top_ref_specs_tmp.values[0]
first_value(series) == series[1][2]

\* one pass of the loop over the rows of df_scores
TopMatches ==
    /\ pc = "top"
    /\ Len(out) < Len(df_scores[1].index)
    /\ LET i == Len(out) + 1
           top == nlargest(Row(df_scores[1], i), conf.n_top_matches_to_save)
       IN  /\ top /= <<>>
           /\ top_ref_specs_tmp' = top
           /\ out' = Append(out, <<Join(Column(top, 1)), first_value(top)>>)
    /\ UNCHANGED <<inputs, loaded, base, conf, unique_query_ids, unique_reference_ids,
                   query_idx, ref_idx, q_spec, r_spec, query_spec, tpos,
                   similarity_scores, all_similarity_scores, df_scores,
                   df_top_ref_specs, files, applied, called, computed, pc>>

\* df_top_ref_specs, with its two columns N1.PRED and N1.SIMILARITY.SCORE
BuildTopMatches ==
    /\ pc = "top"
    /\ Len(out) = Len(df_scores[1].index)
    /\ out /= <<>>
    /\ df_top_ref_specs' =
          Given(DataFrame(out, <<"N1.PRED", "N1.SIMILARITY.SCORE">>, QueryIds))
    /\ pc' = "write_identification"
    /\ UNCHANGED <<inputs, loaded, base, conf, unique_query_ids, unique_reference_ids,
                   query_idx, ref_idx, q_spec, r_spec, query_spec, tpos,
                   similarity_scores, all_similarity_scores, df_scores,
                   top_ref_specs_tmp, out, files, applied, called, computed>>

WriteIdentification ==
    /\ pc = "write_identification"
    /\ files' = [files EXCEPT !.identification = df_top_ref_specs]
    /\ pc' = "write_scores"
    /\ UNCHANGED <<inputs, loaded, base, conf, unique_query_ids, unique_reference_ids,
                   query_idx, ref_idx, q_spec, r_spec, query_spec, tpos,
                   similarity_scores, all_similarity_scores, df_scores,
                   top_ref_specs_tmp, out, df_top_ref_specs, applied, called,
                   computed>>

\* the prefix each script puts before the column labels of df_scores
ColumnPrefix ==
    IF engine = "lcms" THEN "Reference Spectrum ID: " ELSE "Reference Spectrum ID "

Renamed(df) ==
    [df EXCEPT !.columns = [k \in 1..Len(df.columns) |-> ColumnPrefix \o df.columns[k]]]

\* df_scores.columns is renamed in place, then df_scores is written
WriteSimilarityScores ==
    /\ pc = "write_scores"
    /\ df_scores' = Given(Renamed(df_scores[1]))
    /\ files' = [files EXCEPT !.similarity_scores = df_scores']
    /\ pc' = "done"
    /\ UNCHANGED <<inputs, loaded, base, conf, unique_query_ids, unique_reference_ids,
                   query_idx, ref_idx, q_spec, r_spec, query_spec, tpos,
                   similarity_scores, all_similarity_scores, top_ref_specs_tmp,
                   out, df_top_ref_specs, applied, called, computed>>

Next ==
    \/ LoadParametersLCMS
    \/ LoadParametersGCMS
    \/ NextQueryLCMS
    \/ NextReferenceLCMS
    \/ Clean
    \/ Match
    \/ Weight
    \/ LowEntropy
    \/ NoStage
    \/ ScoreLCMS
    \/ ScoreRaisesLCMS
    \/ NextQueryGCMS
    \/ ScoreGCMS
    \/ ScoreRaisesGCMS
    \/ EndReferences
    \/ BuildScores
    \/ TopMatches
    \/ BuildTopMatches
    \/ WriteIdentification
    \/ WriteSimilarityScores

Spec == Init /\ [][Next]_vars

(***************************************************************************)
(* Top-N selection on its own: the rows of df_scores drawn from a set of   *)
(* scores, and the steps of the scripts from the loop over the rows on.    *)
(***************************************************************************)
ScoreValues == {0, 3 * (SCALE \div 10), 6 * (SCALE \div 10), SCALE}

ReferenceLabels == <<"r1", "r2", "r3", "r4", "r5">>

Reverse(s) == [k \in 1..Len(s) |-> s[Len(s) + 1 - k]]

\* a matrix of two rows, the second the first one reversed, over n columns
InitTopMatches ==
    /\ engine \in {"lcms", "gcms"}
    /\ args = NoArgs
    /\ \E n \in 1..MaxNTop : conf = [n_top_matches_to_save |-> n]
    /\ pc = "top"
    /\ unique_query_ids = <<"q1", "q2">>
    /\ \E r \in 1..Min(MaxReferenceRows, Len(ReferenceLabels)) :
          /\ unique_reference_ids = SubSeq(ReferenceLabels, 1, r)
          /\ df_query =
                IF engine = "lcms"
                THEN [k \in 1..2 |-> <<unique_query_ids[k], SCALE, SCALE>>]
                ELSE [k \in 1..2 |-> <<unique_query_ids[k], <<SCALE>>>>]
          /\ df_reference =
                IF engine = "lcms"
                THEN [k \in 1..r |-> <<ReferenceLabels[k], SCALE, SCALE>>]
                ELSE [k \in 1..r |-> <<ReferenceLabels[k], <<SCALE>>>>]
          /\ \E row \in [1..r -> ScoreValues] :
                /\ all_similarity_scores = <<row, Reverse(row)>>
                /\ df_scores = Given(DataFrame(all_similarity_scores,
                                               unique_reference_ids,
                                               unique_query_ids))
    /\ query_idx = 3
    /\ ref_idx = Len(unique_reference_ids) + 1
    /\ q_spec = <<>>
    /\ r_spec = <<>>
    /\ query_spec = <<>>
    /\ tpos = 1
    /\ similarity_scores = all_similarity_scores[2]
    /\ top_ref_specs_tmp = <<>>
    /\ out = <<>>
    /\ df_top_ref_specs = None
    /\ files = [identification |-> None, similarity_scores |-> None]
    /\ base = [q_spec |-> Owned, r_spec |-> Owned]
    /\ loaded = [df_query |-> df_query, df_reference |-> df_reference]
    /\ applied = <<>>
    /\ called = {}
    /\ computed = <<>>

NextTopMatches ==
    \/ TopMatches
    \/ BuildTopMatches
    \/ WriteIdentification
    \/ WriteSimilarityScores

SpecTopMatches == InitTopMatches /\ [][NextTopMatches]_vars

(***************************************************************************)
(* Claims                                                                  *)
(***************************************************************************)
Loaded == conf /= None

(* C1: in the LCMS engine, the query and the reference spectrum that enter *)
(* the first preprocessing stage of every pair are the spectra loaded for  *)
(* that query and that reference.                                          *)
C1_PairStartsFromLoadedSpectra ==
    (engine = "lcms" /\ pc = "transform" /\ tpos = 1) =>
        /\ q_spec = Spectrum(df_query, unique_query_ids[query_idx])
        /\ r_spec = Spectrum(df_reference, unique_reference_ids[ref_idx])

\* the score of query i compared with reference j alone
AloneGCMS(i, j) ==
    similarity(conf,
               Weighted(mzs, df_query[i][2], conf.wf_mz, conf.wf_intensity),
               Weighted(mzs, df_reference[j][2], conf.wf_mz, conf.wf_intensity))

(* C2: in the GCMS engine, the score recorded for (query i, reference j)   *)
(* is the score of query i compared with reference j alone, for every      *)
(* measure and every normalization method.                                 *)
C2_ScoreIndependentOfPosition ==
    (engine = "gcms" /\ pc = "references") =>
        \A j \in 1..Len(similarity_scores) :
            similarity_scores[j] = AloneGCMS(query_idx, j)

(* C3: an LCMS run whose preprocessing order holds no 'M' is rejected      *)
(* before any comparison: no measure runs and no score is computed.       *)
C3_OrderWithoutMatchRejected ==
    (engine = "lcms" /\ Loaded
       /\ ~InSeq("M", conf.spectrum_preprocessing_order)) =>
        /\ called \cap {"S_cos", "S_shannon", "S_renyi", "S_tsallis"} = {}
        /\ computed = <<>>

(* C4: with the measure renyi or tsallis and q = 1, in either engine, the  *)
(* run is flagged and no score is computed.                                *)
C4_DegenerateOrderRejected ==
    (Loaded /\ DegenerateOrder(conf)) => computed = <<>>

(* C5: with a measure name outside cosine, shannon, renyi, tsallis, no     *)
(* preprocessing or normalization of any pair runs and neither output file *)
(* is written.                                                             *)
C5_UnknownMeasureRejected ==
    (Loaded /\ conf.similarity_measure \notin Measures) =>
        /\ called = {}
        /\ files.identification = None
        /\ files.similarity_scores = None

\* the row of df_scores that the last pass of the top-N loop has ranked
RankedRow == Row(df_scores[1], Len(out))

Ranked == pc = "top" /\ out /= <<>>

\* the positions of the row whose score is at least the n-th largest score:
\* all of them when the row has fewer than n scores
AtLeastNth(row, n) ==
    IF Len(row) < n THEN 1..Len(row)
    ELSE {k \in 1..Len(row) :
            Cardinality({m \in 1..Len(row) : row[m][2] > row[k][2]}) < n}

(* C6: for every row of the score matrix and every N >= 1, the references  *)
(* reported are exactly those whose score is at least the N-th largest of  *)
(* the row, ties at the cutoff included.                                   *)
C6_TopNTieInclusive ==
    Ranked =>
        LET row == RankedRow
            sel == AtLeastNth(row, conf.n_top_matches_to_save)
            top == top_ref_specs_tmp
        IN  /\ Len(top) = Cardinality(sel)
            /\ \A k \in sel : InSeq(row[k], top)
            /\ \A m \in 1..Len(top) : \E k \in sel : top[m] = row[k]
            /\ \E order \in [1..Len(top) -> sel] :
                  /\ \A m \in 1..Len(top) : top[m] = row[order[m]]
                  /\ out[Len(out)][1] = Join([m \in 1..Len(top) |-> row[order[m]][1]])

\* more references are reported than N, all tied at the cutoff
C6_Witness ==
    /\ Ranked
    /\ Len(top_ref_specs_tmp) > conf.n_top_matches_to_save
    /\ conf.n_top_matches_to_save >= 1
    /\ \E k \in 1..Len(RankedRow) : ~InSeq(RankedRow[k], top_ref_specs_tmp)

(* C7: the references of a top-N result are listed by descending score and *)
(* one score is reported for the query: that of the first listed           *)
(* reference, the maximum of the row.                                      *)
C7_OneScoreTheMaximum ==
    Ranked =>
        LET row == RankedRow
            top == top_ref_specs_tmp
            entry == out[Len(out)]
        IN  /\ \A m \in 1..(Len(top) - 1) : top[m][2] >= top[m + 1][2]
            /\ Len(entry) = 2
            /\ entry[2] = top[1][2]
            /\ \A k \in 1..Len(row) : entry[2] >= row[k][2]
            /\ \E k \in 1..Len(row) : entry[2] = row[k][2]

\* a listed reference of lower score than the one reported
C7_Witness ==
    /\ Ranked
    /\ Len(top_ref_specs_tmp) >= 2
    /\ top_ref_specs_tmp[Len(top_ref_specs_tmp)][2] < out[Len(out)][2]

\* the position of the first row of the column that holds id
RECURSIVE FirstIndex(_, _)
FirstIndex(col, id) ==
    IF Head(col) = id THEN 1 ELSE 1 + FirstIndex(Tail(col), id)

\* ids lists each identifier of the column once, by first appearance
FirstAppearanceOrder(ids, col) ==
    /\ \A k \in 1..Len(col) : InSeq(col[k], ids)
    /\ \A a \in 1..Len(ids) : InSeq(ids[a], col)
    /\ \A a, b \in 1..Len(ids) :
          a < b => FirstIndex(col, ids[a]) < FirstIndex(col, ids[b])

\* the labels of the frame are the identifiers, behind the prefix once the
\* columns were renamed for the output file
Labelled(labels, ids) ==
    /\ Len(labels) = Len(ids)
    /\ \A k \in 1..Len(ids) :
          labels[k] = (IF pc = "done" THEN ColumnPrefix \o ids[k] ELSE ids[k])

(* C8: the score matrix has one row per query and one column per           *)
(* reference, in input order (LCMS: by first appearance of each            *)
(* identifier), the cell (i, j) holds the score computed for query i and   *)
(* reference j, and every pair was scored exactly once.                    *)
C8_ScoreMatrixAttribution ==
    (df_scores /= None) =>
        LET df == df_scores[1]
            rows == IF engine = "lcms" THEN unique_query_ids ELSE Column(df_query, 1)
            cols == IF engine = "lcms" THEN unique_reference_ids
                    ELSE Column(df_reference, 1)
        IN  /\ engine = "lcms" =>
                  /\ FirstAppearanceOrder(rows, Column(df_query, 1))
                  /\ FirstAppearanceOrder(cols, Column(df_reference, 1))
            /\ df.index = rows
            /\ Labelled(df.columns, cols)
            /\ Len(df.data) = Len(rows)
            /\ Len(computed) = Len(rows) * Len(cols)
            /\ \A i \in 1..Len(rows) :
                  /\ Len(df.data[i]) = Len(cols)
                  /\ \A j \in 1..Len(cols) :
                        \E k \in 1..Len(computed) :
                            /\ computed[k].query_idx = i
                            /\ computed[k].ref_idx = j
                            /\ computed[k].score = df.data[i][j]
                            /\ \A m \in 1..Len(computed) :
                                  (computed[m].query_idx = i
                                     /\ computed[m].ref_idx = j) => m = k

\* a finished run of two queries and two references with unlike scores
C8_Witness ==
    /\ pc = "done"
    /\ Len(df_scores[1].index) >= 2
    /\ Len(df_scores[1].columns) >= 2
    /\ df_scores[1].data[1][1] /= df_scores[1].data[1][2]
    /\ df_scores[1].data[1][1] /= df_scores[1].data[2][1]

(* C9: for every configuration string, each character yields one stage     *)
(* application to the pair, in the order of the characters, and none is    *)
(* passed over.                                                            *)
C9_EveryCharacterAppliesAStage ==
    AtMeasure => applied = conf.spectrum_preprocessing_order

(* C10: for every preprocessing order that holds 'M', the query and the    *)
(* reference vector handed to the measure have one length and one bin      *)
(* sequence.                                                               *)
C10_AlignedAtMeasure ==
    (AtMeasure /\ InSeq("M", conf.spectrum_preprocessing_order)) =>
        /\ Len(q_ints) = Len(r_ints)
        /\ Column(q_spec, 1) = Column(r_spec, 1)

(***************************************************************************)
(* C11: a run never modifies the loaded query and reference tables: in     *)
(* every state of a run of either engine, whatever the preprocessing       *)
(* order, the measure and the normalization method, and however many pairs *)
(* were compared, df_query and df_reference hold exactly the values that   *)
(* were read.                                                              *)
(***************************************************************************)
C11_TablesUnmodified ==
    /\ df_query = loaded.df_query
    /\ df_reference = loaded.df_reference

\* a pair was scored whose first stage stored into q_spec and r_spec as they
\* were built from the tables, and the stores changed the query's values
C11_Witness ==
    /\ engine = "lcms"
    /\ pc = "references"
    /\ computed # <<>>
    /\ applied # <<>>
    /\ applied[1] \in {"W", "L"}
    /\ q_spec # Spectrum(df_query, unique_query_ids[query_idx])
    /\ df_query = loaded.df_query
    /\ df_reference = loaded.df_reference

====
